---------------------------- MODULE Spec2Model ----------------------------
(***************************************************************************)
(* Model of the ingestion reconciliation engine of vosemovies-backend:     *)
(* the Pydantic validator (api/utils/scraper_validator.py,                 *)
(* api/schemas/scraper.py), the scraper service                            *)
(* (api/services/scraper_service.py), the ingestion cycle                  *)
(* (scrapers/unified_scraper_db.py), the subprocess supervisor             *)
(* (api/routers/scraper.py) and the read model                             *)
(* (api/routers/showtimes.py).                                             *)
(*                                                                         *)
(* Strings the code parses (titles, time strings) are sequences of         *)
(* one-character strings, so that cleaning, matching and parsing are       *)
(* computed as the code computes them.                                     *)
(***************************************************************************)
EXTENDS Integers, Sequences, FiniteSets, TLC

(***************************************************************************)
(* Bounds of the model.                                                    *)
(***************************************************************************)
MaxBatch == 2

(***************************************************************************)
(* Python values.                                                          *)
(***************************************************************************)
None == "<None>"

Truthy(x) == x # None /\ x # ""

Digit == {"0", "1", "2", "3", "4", "5", "6", "7", "8", "9"}

Whitespace == {" ", "\t", "\n"}

DigitVal(c) ==
    CASE c = "0" -> 0 [] c = "1" -> 1 [] c = "2" -> 2 [] c = "3" -> 3
      [] c = "4" -> 4 [] c = "5" -> 5 [] c = "6" -> 6 [] c = "7" -> 7
      [] c = "8" -> 8 [] c = "9" -> 9

Upper(c) ==
    CASE c = "a" -> "A" [] c = "p" -> "P" [] c = "m" -> "M" [] OTHER -> c

\* str.split(sep): the parts of v between occurrences of the character sep.
RECURSIVE SplitOn(_, _)
SplitOn(v, sep) ==
    IF \A i \in 1..Len(v) : v[i] # sep
    THEN <<v>>
    ELSE LET i == CHOOSE k \in 1..Len(v) :
                     v[k] = sep /\ \A j \in 1..(k - 1) : v[j] # sep
         IN  <<SubSeq(v, 1, i - 1)>> \o SplitOn(SubSeq(v, i + 1, Len(v)), sep)

\* str.strip(): v without leading and trailing whitespace.
RECURSIVE Strip(_)
Strip(v) ==
    IF v = <<>> THEN v
    ELSE IF v[1] \in Whitespace THEN Strip(Tail(v))
    ELSE IF v[Len(v)] \in Whitespace THEN Strip(SubSeq(v, 1, Len(v) - 1))
    ELSE v

\* str.split() with no argument: the maximal runs of non-whitespace.
RECURSIVE SplitWs(_)
SplitWs(v) ==
    LET s == Strip(v) IN
    IF s = <<>> THEN <<>>
    ELSE IF \A i \in 1..Len(s) : s[i] \notin Whitespace
    THEN <<s>>
    ELSE LET i == CHOOSE k \in 1..Len(s) :
                     s[k] \in Whitespace /\ \A j \in 1..(k - 1) : s[j] \notin Whitespace
         IN  <<SubSeq(s, 1, i - 1)>> \o SplitWs(SubSeq(s, i + 1, Len(s)))

\* ' '.join(words)
RECURSIVE JoinSp(_)
JoinSp(words) ==
    IF words = <<>> THEN <<>>
    ELSE IF Len(words) = 1 THEN words[1]
    ELSE words[1] \o <<" ">> \o JoinSp(Tail(words))

RECURSIVE DigitsVal(_)
DigitsVal(v) ==
    IF v = <<>> THEN 0 ELSE 10 * DigitsVal(SubSeq(v, 1, Len(v) - 1)) + DigitVal(v[Len(v)])

\* int(s): surrounding whitespace is ignored, an optional sign, then one or
\* more decimal digits; anything else is a ValueError.
PyInt(v) ==
    LET s    == Strip(v)
        neg  == s # <<>> /\ s[1] = "-"
        body == IF s # <<>> /\ s[1] \in {"+", "-"} THEN Tail(s) ELSE s
    IN  IF body # <<>> /\ \A i \in 1..Len(body) : body[i] \in Digit
        THEN [ok |-> TRUE, val |-> IF neg THEN 0 - DigitsVal(body) ELSE DigitsVal(body)]
        ELSE [ok |-> FALSE, val |-> 0]

(***************************************************************************)
(* api/schemas/scraper.py                                                  *)
(***************************************************************************)
\* datetime.strptime(v, '%Y-%m-%d'): a date string is modelled by its layout
\* and the day it names; only the year-month-day layout parses.
StrptimeYmd(v) == [ok |-> v.fmt = "ymd", day |-> v.day]

\* ScrapedShowtime.validate_date
validate_date(v) == StrptimeYmd(v).ok

\* re.match(r'^\d{1,2}:\d{2}(\s?[AP]M)?$', v, re.IGNORECASE), without the
\* end-of-string rule of $.
TimePatternBody(v) ==
    \E h \in 1..2 :
        /\ Len(v) >= h + 3
        /\ \A i \in 1..h : v[i] \in Digit
        /\ v[h + 1] = ":"
        /\ v[h + 2] \in Digit
        /\ v[h + 3] \in Digit
        /\ LET rest == SubSeq(v, h + 4, Len(v)) IN
             \/ rest = <<>>
             \/ Len(rest) = 2 /\ Upper(rest[1]) \in {"A", "P"} /\ Upper(rest[2]) = "M"
             \/ /\ Len(rest) = 3
                /\ rest[1] \in Whitespace
                /\ Upper(rest[2]) \in {"A", "P"}
                /\ Upper(rest[3]) = "M"

\* ScrapedShowtime.validate_time: $ also matches before one final newline.
validate_time(v) ==
    \/ TimePatternBody(v)
    \/ Len(v) > 0 /\ v[Len(v)] = "\n" /\ TimePatternBody(SubSeq(v, 1, Len(v) - 1))

\* ScrapedMovie.validate_title: ' '.join(v.split())
CleanTitle(v) == JoinSp(SplitWs(v))

ValidIslands == {"Mallorca", "Menorca", "Ibiza", "Formentera"}

\* ScrapedMovie.validate_island
MutIslandAny(v) == TRUE

validate_island(v) == v \in ValidIslands

\* ScrapedMovie.validate_scraped_at: datetime.fromisoformat(v); a timestamp
\* string is modelled by its layout.
validate_scraped_at(v) == v.fmt = "iso"

Err(field, index, sub, type) == [field |-> field, index |-> index, sub |-> sub, type |-> type]

Has(r, k) == k \in DOMAIN r

\* The errors Pydantic collects for one field; all fields are validated and
\* every failure is reported in the one ValidationError.
TitleErrors(r) ==
    IF ~Has(r, "title") THEN <<Err("title", -1, "", "missing")>>
    ELSE IF Len(r.title) < 1 THEN <<Err("title", -1, "", "string_too_short")>>
    ELSE IF CleanTitle(r.title) = <<>> THEN <<Err("title", -1, "", "value_error")>>
    ELSE <<>>

\* One entry of showtimes validated as a ScrapedShowtime: a dict with date
\* and time; a bare string is not a ScrapedShowtime.
ShowtimeEntryErrors(e, i) ==
    IF e.kind # "dict" THEN <<Err("showtimes", i, "", "model_attributes_type")>>
    ELSE (IF ~Has(e, "date") THEN <<Err("showtimes", i, "date", "missing")>>
          ELSE IF ~validate_date(e.date) THEN <<Err("showtimes", i, "date", "value_error")>>
          ELSE <<>>)
      \o (IF ~Has(e, "time") THEN <<Err("showtimes", i, "time", "missing")>>
          ELSE IF ~validate_time(e.time) THEN <<Err("showtimes", i, "time", "value_error")>>
          ELSE <<>>)

RECURSIVE ShowtimeListErrors(_, _)
ShowtimeListErrors(l, i) ==
    IF i > Len(l) THEN <<>>
    ELSE ShowtimeEntryErrors(l[i], i - 1) \o ShowtimeListErrors(l, i + 1)

ShowtimesErrors(r) ==
    IF ~Has(r, "showtimes") THEN <<Err("showtimes", -1, "", "missing")>>
    ELSE IF Len(r.showtimes) < 1 THEN <<Err("showtimes", -1, "", "too_short")>>
    ELSE ShowtimeListErrors(r.showtimes, 1)

RequiredStrErrors(r, k) ==
    IF ~Has(r, k) THEN <<Err(k, -1, "", "missing")>>
    ELSE IF r[k] = "" THEN <<Err(k, -1, "", "string_too_short")>>
    ELSE <<>>

IslandErrors(r) ==
    IF ~Has(r, "island") THEN <<Err("island", -1, "", "missing")>>
    ELSE IF ~validate_island(r.island) THEN <<Err("island", -1, "", "value_error")>>
    ELSE <<>>

ScrapedAtErrors(r) ==
    IF ~Has(r, "scraped_at") THEN <<Err("scraped_at", -1, "", "missing")>>
    ELSE IF ~validate_scraped_at(r.scraped_at) THEN <<Err("scraped_at", -1, "", "value_error")>>
    ELSE <<>>

\* e.errors() of ScrapedMovie(**movie_data), in field order.
ScrapedMovieErrors(r) ==
    TitleErrors(r) \o ShowtimesErrors(r) \o RequiredStrErrors(r, "cinema")
      \o RequiredStrErrors(r, "location") \o IslandErrors(r) \o ScrapedAtErrors(r)

\* The validated ScrapedMovie, as model_dump() returns it
\* (unified_scraper_db.py line 139).
ScrapedMovie(r) ==
    [title      |-> CleanTitle(r.title),
     link       |-> IF Has(r, "link") THEN r.link ELSE None,
     showtimes  |-> [i \in 1..Len(r.showtimes) |->
                        [kind |-> "dict", date |-> r.showtimes[i].date,
                         time |-> r.showtimes[i].time]],
     cinema     |-> r.cinema,
     location   |-> r.location,
     island     |-> r.island,
     version    |-> IF Has(r, "version") THEN r.version ELSE "VOSE",
     scraped_at |-> r.scraped_at]

(***************************************************************************)
(* api/utils/scraper_validator.py                                          *)
(***************************************************************************)
SuspiciousShowtimes == 50

\* movie_data.get(key, 'Unknown')
GetOrUnknown(r, k) == IF Has(r, k) THEN r[k] ELSE "Unknown"

MutOnValidationErrorRaise(acc, idx, r, errs) == [acc EXCEPT !.raised = TRUE]

MutOnValidationErrorPerField(acc, idx, r, errs) ==
    [acc EXCEPT !.errors = @ \o [i \in 1..Len(errs) |->
                                    [index |-> idx, cinema |-> GetOrUnknown(r, "cinema"),
                                     errors |-> <<errs[i]>>]]]

\* except ValidationError: one error_detail for the record, whatever the
\* number of its failing fields.
OnValidationError(acc, idx, r, errs) ==
    [acc EXCEPT !.errors = Append(@, [index  |-> idx,
                                      cinema |-> GetOrUnknown(r, "cinema"),
                                      errors |-> errs])]

\* One iteration of the loop of validate_movies.
ValidateOne(acc, idx, r) ==
    IF acc.raised THEN acc
    ELSE LET errs == ScrapedMovieErrors(r) IN
         IF errs = <<>>
         THEN LET m == ScrapedMovie(r) IN
              [acc EXCEPT !.valid_movies = Append(@, m),
                          !.warnings = IF Len(m.showtimes) > SuspiciousShowtimes
                                       THEN Append(@, m.title) ELSE @]
         ELSE OnValidationError(acc, idx, r, errs)

RECURSIVE ValidateLoop(_, _, _)
ValidateLoop(acc, movies, i) ==
    IF i > Len(movies) THEN acc
    ELSE ValidateLoop(ValidateOne(acc, i - 1, movies[i]), movies, i + 1)

\* ScraperDataValidator.validate_movies
validate_movies(movies) ==
    LET acc == ValidateLoop([valid_movies |-> <<>>, errors |-> <<>>,
                             warnings |-> <<>>, raised |-> FALSE], movies, 1)
    IN  [raised       |-> acc.raised,
         valid_movies |-> acc.valid_movies,
         result       |-> [valid         |-> Len(acc.errors) = 0,
                           total_items   |-> Len(movies),
                           valid_items   |-> Len(acc.valid_movies),
                           invalid_items |-> Len(acc.errors),
                           errors        |-> acc.errors,
                           warnings      |-> acc.warnings]]

(***************************************************************************)
(* Inputs: the raw records the collectors hand to the validator.           *)
(***************************************************************************)
T1800 == <<"1", "8", ":", "0", "0">>
T930 == <<"9", ":", "3", "0">>
T730PM == <<"7", ":", "3", "0", " ", "P", "M">>
T2500 == <<"2", "5", ":", "0", "0">>
TNoColon == <<"1", "8", "0", "0">>

Ymd(d) == [fmt |-> "ymd", day |-> d]
Dmy(d) == [fmt |-> "dmy", day |-> d]
Iso == [fmt |-> "iso"]
NotIso == [fmt |-> "text"]

Dated(d, t) == [kind |-> "dict", date |-> d, time |-> t]
Legacy(t) == [kind |-> "str", time |-> t]

Raw(title, cinema, island, sts) ==
    [title |-> title, cinema |-> cinema, location |-> "L", island |-> island,
     showtimes |-> sts, scraped_at |-> Iso]

Drop(r, k) == [f \in DOMAIN r \ {k} |-> r[f]]

With(r, k, v) == [f \in DOMAIN r \cup {k} |-> IF f = k THEN v ELSE r[f]]

BaseRaw == Raw(<<"a">>, "X", "Mallorca", <<Dated(Ymd(1), T1800)>>)

\* The records of the validator's specification: the base record, and the
\* base record with one field, or several, missing or malformed.
RawRecords ==
    {BaseRaw,
     With(BaseRaw, "title", <<" ", "a">>),
     With(BaseRaw, "title", <<"b">>),
     With(BaseRaw, "title", <<>>),
     With(BaseRaw, "title", <<" ">>),
     Drop(BaseRaw, "title"),
     With(BaseRaw, "cinema", ""),
     Drop(BaseRaw, "location"),
     With(BaseRaw, "island", "Atlantis"),
     With(BaseRaw, "island", "Ibiza"),
     Drop(BaseRaw, "island"),
     With(BaseRaw, "scraped_at", NotIso),
     Drop(BaseRaw, "scraped_at"),
     With(BaseRaw, "link", "http://a"),
     Drop(BaseRaw, "showtimes"),
     With(BaseRaw, "showtimes", <<>>),
     With(BaseRaw, "showtimes", <<Legacy(T1800)>>),
     With(BaseRaw, "showtimes", <<Dated(Dmy(1), T1800)>>),
     With(BaseRaw, "showtimes", <<Dated(Ymd(1), T730PM)>>),
     With(BaseRaw, "showtimes", <<Dated(Ymd(1), T2500)>>),
     With(BaseRaw, "showtimes", <<Dated(Ymd(1), TNoColon)>>),
     With(BaseRaw, "showtimes", <<Dated(Ymd(1), T1800), Dated(Dmy(2), TNoColon)>>),
     With(BaseRaw, "showtimes", <<Dated(Ymd(1), T1800), Dated(Ymd(2), T930)>>),
     [title |-> <<"a">>, showtimes |-> <<>>, cinema |-> "X"],
     [title |-> <<"b">>, showtimes |-> <<>>]}

RECURSIVE SeqsUpTo(_, _)
SeqsUpTo(S, n) ==
    IF n = 0 THEN {<<>>}
    ELSE LET shorter == SeqsUpTo(S, n - 1) IN
         shorter \cup {Append(q, x) : q \in {z \in shorter : Len(z) = n - 1}, x \in S}

(***************************************************************************)
(* State.                                                                  *)
(*   movies, cinemas, showtimes, runs: the committed rows of the four      *)
(*     tables (api/models).                                                *)
(*   clock: the wall clock, [now, today].                                  *)
(*   up: whether storage is reachable.                                     *)
(*   proc: the ingestion processes (one run of main() each at a time):     *)
(*     position, batch, and the state of the SQLAlchemy session.           *)
(*   vin, vout: input and result of a call of validate_movies on its own.  *)
(*   qout: the request GET /showtimes/ is answering, with its response.    *)
(*   task: run_scraper_task, the supervisor of a cycle run as a subprocess.*)
(*   cli: the command line of main() and the collectors scrape_all ran.    *)
(*                                                                         *)
(* Storage is a SQL database at READ COMMITTED: a session sees the         *)
(* committed rows and the rows its own open transaction has flushed; a     *)
(* unique constraint is checked when a row is INSERTed (at flush); an      *)
(* INSERT whose key another open transaction has inserted waits for that   *)
(* transaction to end.  An UPDATE is applied to the committed row when     *)
(* its transaction commits.                                                *)
(***************************************************************************)
VARIABLES movies, cinemas, showtimes, runs, clock, up, proc, vin, vout, qout, task, cli

vvars == <<vin, vout, qout, task, cli>>

dbvars == <<movies, cinemas, showtimes, runs>>

vars == <<movies, cinemas, showtimes, runs, clock, up, proc, vin, vout, qout, task, cli>>

Procs == DOMAIN proc

NotRun == [raised |-> FALSE, valid_movies |-> <<>>,
           result |-> [valid |-> TRUE, total_items |-> -1, valid_items |-> 0,
                       invalid_items |-> 0, errors |-> <<>>, warnings |-> <<>>]]

\* A call of validate_movies on the input list.
VValidate ==
    /\ vout = NotRun
    /\ vout' = validate_movies(vin)
    /\ UNCHANGED <<vin, qout, task, cli>>

(***************************************************************************)
(* api/models: rows, natural keys and unique constraints.                  *)
(***************************************************************************)
ShowtimeKey(r) == <<r.movie_id, r.cinema_id, r.date, r.time>>

CinemaKey(r) == <<r.name, r.location>>

\* Movie.title: unique=True
MutMovieTitleNotUnique(row, rows) == FALSE

ViolatesMovieTitleUnique(row, rows) == \E x \in rows : x.title = row.title

\* Cinema.__table_args__: uq_cinema_name_location
MutUqCinemaNameOnly(row, rows) == \E x \in rows : x.name = row.name

ViolatesUqCinemaNameLocation(row, rows) == \E x \in rows : CinemaKey(x) = CinemaKey(row)

\* Showtime.__table_args__: uq_showtime
MutNoUqShowtime(row, rows) == FALSE

ViolatesUqShowtime(row, rows) == \E x \in rows : ShowtimeKey(x) = ShowtimeKey(row)

Violates(tab, row, rows) ==
    CASE tab = "movie" -> ViolatesMovieTitleUnique(row, rows)
      [] tab = "cinema" -> ViolatesUqCinemaNameLocation(row, rows)
      [] tab = "showtime" -> ViolatesUqShowtime(row, rows)

Committed(tab) ==
    CASE tab = "movie" -> movies [] tab = "cinema" -> cinemas [] tab = "showtime" -> showtimes

TxRows(s, tab) ==
    CASE tab = "movie" -> s.txM [] tab = "cinema" -> s.txC [] tab = "showtime" -> s.txS

\* The rows the open transactions of the processes Q have inserted and not
\* committed.
HeldBy(Q, tab) == UNION {TxRows(proc[q], tab) : q \in Q}

Ids(rows) == {r.id : r \in rows}

UsedIds(tab) == Ids(Committed(tab)) \cup UNION {Ids(TxRows(proc[q], tab)) : q \in Procs}

\* The primary key of a new row.
NextId(used) == CHOOSE n \in 1..(Cardinality(used) + 1) :
                    n \notin used /\ \A k \in 1..(n - 1) : k \in used

(***************************************************************************)
(* The session (api/database/config.py: autocommit=False, autoflush=False).*)
(*   txM, txC, txS: rows this transaction has INSERTed (flushed);          *)
(*   txLink: link UPDATEs this transaction has flushed;                    *)
(*   pend: Showtime objects added with db.add() and not flushed yet;       *)
(*   hb: changes of scraped_at and is_active on existing Showtime objects; *)
(*   failed: a flush or a statement failed and rollback() was not called.  *)
(***************************************************************************)
NoTx(s) ==
    [s EXCEPT !.txM = {}, !.txC = {}, !.txS = {}, !.txLink = {}, !.pend = <<>>, !.hb = {}]

\* A statement of the session raised: its transaction is gone, and until
\* rollback() every statement raises PendingRollbackError.
SessionFailed(s) == [NoTx(s) EXCEPT !.failed = TRUE]

\* Session.rollback()
SessionRollback(s) == [NoTx(s) EXCEPT !.failed = FALSE]

\* A query or a flush of this session raises before it reaches the tables.
StmtRaises(s) == s.failed \/ ~up

\* What the session's queries see.
VisMovies(s) ==
    {IF \E u \in s.txLink : u.id = m.id
     THEN [m EXCEPT !.link = (CHOOSE u \in s.txLink : u.id = m.id).link]
     ELSE m : m \in movies} \cup s.txM

VisCinemas(s) == cinemas \cup s.txC

VisShowtimes(s) == showtimes \cup s.txS

\* The INSERTs of a flush, in the unit of work's order: the new Movie or
\* Cinema first, then the pending Showtimes in the order they were added.
FlushList(s, first) ==
    first \o [i \in 1..Len(s.pend) |-> [tab |-> "showtime", row |-> s.pend[i]]]

\* The outcome of the INSERTs of l from position i on, given the rows
\* already inserted by this flush: "integrity" at the first row whose key
\* is committed or inserted by this transaction, "blocked" at the first row
\* whose key an open transaction of the processes Q holds, "ok" if every
\* row goes in.
RECURSIVE FlushOutcome(_, _, _, _, _)
FlushOutcome(Q, s, l, i, done) ==
    IF i > Len(l) THEN "ok"
    ELSE LET tab == l[i].tab
             row == l[i].row
             mine == Committed(tab) \cup TxRows(s, tab)
                       \cup {x.row : x \in {y \in done : y.tab = tab}}
         IN  IF Violates(tab, row, mine) THEN "integrity"
             ELSE IF Violates(tab, row, HeldBy(Q, tab)) THEN "blocked"
             ELSE FlushOutcome(Q, s, l, i + 1, done \cup {l[i]})

\* The pending Showtimes as rows, with primary keys and the server default
\* of scraped_at (func.now()).
RECURSIVE InsertedShowtimes(_, _, _)
InsertedShowtimes(pend, used, now) ==
    IF pend = <<>> THEN {}
    ELSE LET id == NextId(used) IN
         {[pend[1] EXCEPT !.id = id, !.scraped_at = now]}
           \cup InsertedShowtimes(Tail(pend), used \cup {id}, now)

\* Session.flush() of the pending Showtimes that succeeded.
FlushPending(s) ==
    [s EXCEPT !.txS = @ \cup InsertedShowtimes(s.pend, UsedIds("showtime"), clock.now),
              !.pend = <<>>]

ApplyLinks(rows, txLink) ==
    {IF \E u \in txLink : u.id = m.id
     THEN [m EXCEPT !.link = (CHOOSE u \in txLink : u.id = m.id).link]
     ELSE m : m \in rows}

MutHeartbeatOverwritesVersion(rows, hb) ==
    {IF \E h \in hb : h.id = r.id
     THEN LET h == CHOOSE x \in hb : x.id = r.id IN
          [r EXCEPT !.scraped_at = h.at, !.active = IF h.set_active THEN TRUE ELSE @,
                    !.version = "VO"]
     ELSE r : r \in rows}

ApplyHeartbeats(rows, hb) ==
    {IF \E h \in hb : h.id = r.id
     THEN LET h == CHOOSE x \in hb : x.id = r.id IN
          [r EXCEPT !.scraped_at = h.at, !.active = IF h.set_active THEN TRUE ELSE @]
     ELSE r : r \in rows}

\* COMMIT of a flushed transaction.
CommitTables(s) ==
    /\ movies' = ApplyLinks(movies, s.txLink) \cup s.txM
    /\ cinemas' = cinemas \cup s.txC
    /\ showtimes' = ApplyHeartbeats(showtimes, s.hb) \cup s.txS

(***************************************************************************)
(* The batches the collectors deliver to an ingestion cycle.               *)
(***************************************************************************)
CycleBatches ==
    << <<Raw(<<"a">>, "X", "Mallorca", <<Dated(Ymd(1), T1800)>>)>>,
       <<With(Raw(<<"a">>, "X", "Mallorca", <<Dated(Ymd(1), T1800), Dated(Ymd(1), T1800)>>),
              "link", "http://b")>>,
       <<Raw(<<"b">>, "X", "Mallorca", <<Dated(Ymd(0), T930)>>),
         With(With(Raw(<<" ", "a">>, "X", "Ibiza", <<Dated(Ymd(1), T1800)>>), "link", "http://a"),
              "location", "L2")>>,
       <<Raw(<<"a">>, "X", "Mallorca", <<Legacy(T1800)>>),
         With(Raw(<<"a">>, "X", "Menorca",
                  <<Dated(Ymd(0), T930), Dated(Ymd(1), T930), Dated(Ymd(1), T730PM)>>),
              "version", "VO"),
         Raw(<<"b">>, "X", "Atlantis", <<Dated(Ymd(1), T1800)>>),
         Raw(<<"c">>, "X", "Mallorca", <<>>),
         Raw(<<"c">>, "Y", "Mallorca", <<Dated(Ymd(1), T1800), Dated(Dmy(1), T930)>>),
         Drop(Raw(<<"c">>, "X", "Mallorca", <<Dated(Ymd(1), T1800)>>), "scraped_at")>> >>

\* save_to_database lines 130 and 139: the validated records, as dicts.
ValidatedBatches == [b \in DOMAIN CycleBatches |-> validate_movies(CycleBatches[b])]

\* The records the cycle of a process ingests.
BatchOf(s) == s.items

(***************************************************************************)
(* api/services/scraper_service.py                                         *)
(***************************************************************************)
ZeroStats == [movies_processed |-> 0, cinemas_processed |-> 0, showtimes_added |-> 0,
              errors |-> 0]

\* dt_time(hour, minute)
DtTimeOk(h, m) == h \in 0..23 /\ m \in 0..59

\* Lines 162-181 (and 261-279): one entry of showtimes resolved to a date
\* and a time; "skip" is the continue of an incomplete entry, "ValueError"
\* what strptime, the unpacking of split(":"), int() or dt_time() raise.
ParseShowtimeItem(e, today) ==
    LET skip == e.kind = "dict" /\ (~Has(e, "date") \/ ~Has(e, "time") \/ e.time = <<>>)
        d == IF e.kind = "dict" THEN StrptimeYmd(e.date) ELSE [ok |-> TRUE, day |-> today]
        parts == SplitOn(e.time, ":")
        h == PyInt(parts[1])
        m == PyInt(parts[2])
    IN  IF skip THEN [res |-> "skip", date |-> 0, time |-> <<0, 0>>]
        ELSE IF ~d.ok \/ Len(parts) # 2 THEN [res |-> "ValueError", date |-> 0, time |-> <<0, 0>>]
        ELSE IF ~h.ok \/ ~m.ok \/ ~DtTimeOk(h.val, m.val)
        THEN [res |-> "ValueError", date |-> 0, time |-> <<0, 0>>]
        ELSE [res |-> "ok", date |-> d.day, time |-> <<h.val, m.val>>]

\* Line 142: if not all([title, cinema_name, location, island])
Incomplete(item) ==
    item.title = <<>> \/ item.cinema = "" \/ item.location = "" \/ item.island = ""

SeeMovie(s, id) ==
    IF id \in s.mseen THEN s
    ELSE [s EXCEPT !.mseen = @ \cup {id}, !.stats.movies_processed = @ + 1]

SeeCinema(s, id) ==
    IF id \in s.cseen THEN s
    ELSE [s EXCEPT !.cseen = @ \cup {id}, !.stats.cinemas_processed = @ + 1]

\* The position that follows in process_scraped_data, or the same one in
\* _reprocess_with_individual_commits when the session is replaying.
ReplayPc ==
    [movieQ |-> "rMovieQ", movieF |-> "rMovieF", cinemaQ |-> "rCinemaQ",
     cinemaF |-> "rCinemaF", showQ |-> "rShowQ", commit |-> "log"]

At(s, pc) == IF s.path = "recovery" THEN ReplayPc[pc] ELSE pc

\* The loop over scraped_movies moves to the next item, or ends.
NextItem(s) ==
    IF s.i < Len(BatchOf(s))
    THEN [s EXCEPT !.i = s.i + 1, !.j = 1, !.movie = 0, !.cinema = 0, !.pc = At(s, "movieQ")]
    ELSE [s EXCEPT !.i = 0, !.j = 0, !.movie = 0, !.cinema = 0, !.pc = At(s, "commit")]

\* The loop over showtimes moves to the next entry, or ends.
NextShowtime(s) ==
    IF s.j < Len(BatchOf(s)[s.i].showtimes)
    THEN [s EXCEPT !.j = s.j + 1, !.pc = At(s, "showQ")]
    ELSE NextItem(s)

\* Lines 194-196: except Exception around one item of the batch.
ItemExcept(s) == NextItem([s EXCEPT !.stats.errors = @ + 1])

\* Lines 187-192: except ValueError / except Exception around one showtime.
ShowtimeExcept(s) == NextShowtime([s EXCEPT !.stats.errors = @ + 1])

\* get_or_create_movie, line 21: the query.  Movie found and nothing to
\* backfill: the movie is resolved; otherwise a flush follows.
MutBackfillAlways(s) ==
    LET item == BatchOf(s)[s.i]
        found == {m \in VisMovies(s) : m.title = item.title}
    IN  IF found = {} THEN [s EXCEPT !.movie = 0, !.pc = At(s, "movieF")]
        ELSE LET m == CHOOSE x \in found : TRUE IN
             IF Truthy(item.link) /\ m.link # item.link
             THEN [s EXCEPT !.movie = m.id, !.pc = At(s, "movieF")]
             ELSE [SeeMovie(s, m.id) EXCEPT !.movie = m.id, !.pc = At(s, "cinemaQ")]

GetOrCreateMovieQuery(s) ==
    LET item == BatchOf(s)[s.i]
        found == {m \in VisMovies(s) : m.title = item.title}
    IN  IF found = {} THEN [s EXCEPT !.movie = 0, !.pc = At(s, "movieF")]
        ELSE LET m == CHOOSE x \in found : TRUE IN
             IF Truthy(item.link) /\ ~Truthy(m.link)
             THEN [s EXCEPT !.movie = m.id, !.pc = At(s, "movieF")]
             ELSE [SeeMovie(s, m.id) EXCEPT !.movie = m.id, !.pc = At(s, "cinemaQ")]

\* The INSERT of get_or_create_movie (lines 24-26), if any.
NewMovieRows(s) ==
    LET item == BatchOf(s)[s.i] IN
    IF s.movie = 0
    THEN <<[tab |-> "movie", row |-> [id |-> 0, title |-> item.title, link |-> item.link]]>>
    ELSE <<>>

\* get_or_create_movie, lines 24-31, after its flush succeeded: the new
\* row, or the backfilled link.
GetOrCreateMovieFlushed(s) ==
    LET item == BatchOf(s)[s.i]
        s1 == FlushPending(s)
        id == NextId(UsedIds("movie"))
    IN  IF s.movie = 0
        THEN [s1 EXCEPT !.txM = @ \cup {[id |-> id, title |-> item.title, link |-> item.link]},
                        !.movie = id]
        ELSE IF s.movie \in Ids(s.txM)
        THEN [s1 EXCEPT !.txM = {IF m.id = s.movie THEN [m EXCEPT !.link = item.link] ELSE m
                                   : m \in s.txM}]
        ELSE [s1 EXCEPT !.txLink = {u \in @ : u.id # s.movie}
                                     \cup {[id |-> s.movie, link |-> item.link]}]

\* get_or_create_cinema, line 44: the query.
GetOrCreateCinemaQuery(s) ==
    LET item == BatchOf(s)[s.i]
        found == {c \in VisCinemas(s) : c.name = item.cinema /\ c.location = item.location}
    IN  IF found = {} THEN [s EXCEPT !.cinema = 0, !.pc = At(s, "cinemaF")]
        ELSE LET c == CHOOSE x \in found : TRUE IN
             [SeeCinema(s, c.id) EXCEPT !.cinema = c.id, !.pc = At(s, "showQ")]

NewCinemaRows(s) ==
    LET item == BatchOf(s)[s.i] IN
    <<[tab |-> "cinema",
       row |-> [id |-> 0, name |-> item.cinema, location |-> item.location,
                island |-> item.island]]>>

\* get_or_create_cinema, lines 50-58, after its flush succeeded.
GetOrCreateCinemaFlushed(s) ==
    LET item == BatchOf(s)[s.i]
        s1 == FlushPending(s)
        id == NextId(UsedIds("cinema"))
    IN  [s1 EXCEPT !.txC = @ \cup {[id |-> id, name |-> item.cinema,
                                     location |-> item.location, island |-> item.island]},
                   !.cinema = id]

NewShowtime(s, parsed) ==
    [id |-> 0, movie_id |-> s.movie, cinema_id |-> s.cinema, date |-> parsed.date,
     time |-> parsed.time, version |-> BatchOf(s)[s.i].version, active |-> TRUE,
     scraped_at |-> 0]

\* Lines 73-78 (and 282-287): the query for the row of the key.
MutExistingNever(s, parsed) == {}

Existing(s, parsed) ==
    {x \in VisShowtimes(s) : ShowtimeKey(x) = ShowtimeKey(NewShowtime(s, parsed))}

\* Lines 82-83 (and 303-304): existing.scraped_at = datetime.now();
\* existing.is_active = True.  The unit of work writes the attributes whose
\* value differs from the one the object was loaded with: the UPDATE of a
\* row loaded active sets scraped_at alone.  An object the session has
\* loaded before is not loaded again.
LoadedInactive(s, row) ==
    IF \E h \in s.hb : h.id = row.id
    THEN (CHOOSE h \in s.hb : h.id = row.id).set_active
    ELSE ~row.active

Heartbeat(s, row) ==
    IF row \in s.txS
    THEN [s EXCEPT !.txS = (@ \ {row}) \cup {[row EXCEPT !.scraped_at = clock.now,
                                                         !.active = TRUE]}]
    ELSE [s EXCEPT !.hb = {h \in @ : h.id # row.id}
                            \cup {[id |-> row.id, at |-> clock.now,
                                   set_active |-> LoadedInactive(s, row)]}]

\* add_showtime, lines 72-98: heartbeat of the existing row, or db.add of a
\* new one; the caller counts both (lines 183-185).
add_showtime(s, parsed) ==
    LET ex == Existing(s, parsed) IN
    [(IF ex # {} THEN Heartbeat(s, CHOOSE x \in ex : TRUE)
      ELSE [s EXCEPT !.pend = Append(@, NewShowtime(s, parsed))])
     EXCEPT !.stats.showtimes_added = @ + 1]

\* mark_old_showtimes_inactive, lines 320-324.
MutSweepAll(rows, today) == {[r EXCEPT !.active = FALSE] : r \in rows}

MutSweepThroughToday(rows, today) ==
    {IF r.date <= today /\ r.active THEN [r EXCEPT !.active = FALSE] ELSE r : r \in rows}

MutSweepDeletes(rows, today) == {r \in rows : ~(r.date < today /\ r.active)}

mark_old_showtimes_inactive(rows, today) ==
    {IF r.date < today /\ r.active THEN [r EXCEPT !.active = FALSE] ELSE r : r \in rows}

\* Line 324: the number of rows the UPDATE matched, which the sweep returns.
SweepResult(rows, today) == Cardinality({r \in rows : r.date < today /\ r.active})

(***************************************************************************)
(* The ingestion cycle: main() and save_to_database of                     *)
(* scrapers/unified_scraper_db.py around process_scraped_data.  Every      *)
(* action is one statement sent to storage, with the Python code up to the *)
(* next statement.                                                         *)
(***************************************************************************)
MaxCycles == 2
MaxNow == 2
MaxDay == 2

\* The catalog by natural keys: what a reader of the tables can tell apart
\* when primary keys and scraped_at are left out.
TitleOf(id) == IF \E m \in movies : m.id = id THEN (CHOOSE m \in movies : m.id = id).title
               ELSE <<"?">>

CinemaOf(id) == IF \E c \in cinemas : c.id = id
                THEN CinemaKey(CHOOSE c \in cinemas : c.id = id)
                ELSE <<"?", "?">>

NaturalKey(x) == <<TitleOf(x.movie_id), CinemaOf(x.cinema_id), x.date, x.time>>

Catalog ==
    [movies |-> {<<m.title, m.link>> : m \in movies},
     cinemas |-> {<<c.name, c.location, c.island>> : c \in cinemas},
     showtimes |-> {<<NaturalKey(x), x.version, x.active>> : x \in showtimes}]

NoCatalog == [movies |-> {}, cinemas |-> {}, showtimes |-> {}]

NoCycle == [end |-> "none", batch |-> 0, day |-> 0, cat0 |-> NoCatalog]

\* A process: its position in the cycle (pc, i, j), its session, the stats
\* of process_scraped_data, and what an observer of its cycles records: the
\* number n of the cycle and, as long as no other process has started one,
\* the day and the catalog it started with, and the same of the cycle
\* before it.
IdleProc ==
    [pc |-> "idle", n |-> 0, batch |-> 0, items |-> <<>>, i |-> 0, j |-> 0, movie |-> 0, cinema |-> 0,
     txM |-> {}, txC |-> {}, txS |-> {}, txLink |-> {}, pend |-> <<>>, hb |-> {},
     failed |-> FALSE, stats |-> ZeroStats, mseen |-> {}, cseen |-> {},
     path |-> "none", started |-> 0, raised |-> FALSE,
     day0 |-> 0, cat0 |-> NoCatalog, prev |-> NoCycle]

RECURSIVE CyclesStarted(_)
CyclesStarted(Q) ==
    IF Q = {} THEN 0
    ELSE LET q == CHOOSE x \in Q : TRUE IN proc[q].n + CyclesStarted(Q \ {q})

Ended(s) == s.pc \in {"idle", "done", "exit1", "killed"}

Set(p, s) == proc' = [proc EXCEPT ![p] = s]

\* No process but p has started a cycle.
Alone(p) == \A q \in Procs \ {p} : proc[q].n = 0

\* main() starts: scrape_all delivers the batch (line 235), save_to_database
\* validates it (lines 130-139) and opens its session (line 141).
Start(p, b) ==
    /\ Ended(proc[p])
    /\ CyclesStarted(Procs) < MaxCycles
    /\ Set(p, [IdleProc EXCEPT !.pc = "sweep", !.n = proc[p].n + 1, !.batch = b,
                               !.items = ValidatedBatches[b].valid_movies,
                               !.started = clock.now,
                               !.day0 = IF Alone(p) THEN clock.today ELSE 0,
                               !.cat0 = IF Alone(p) THEN Catalog ELSE NoCatalog,
                               !.prev = IF Alone(p)
                                        THEN [end |-> proc[p].pc, batch |-> proc[p].batch,
                                              day |-> proc[p].day0, cat0 |-> proc[p].cat0]
                                        ELSE NoCycle])
    /\ UNCHANGED <<dbvars, clock, up, vvars>>

\* The first item of the batch, or the commit of an empty batch.
FirstItem(s) == NextItem([s EXCEPT !.i = 0])

\* save_to_database line 147: the sweep and its commit.  An exception
\* leaves save_to_database (lines 176-179) for the handler of main().
Sweep(p) ==
    LET s == proc[p] IN
    /\ s.pc = "sweep"
    /\ IF StmtRaises(s)
       THEN /\ Set(p, [s EXCEPT !.pc = "logfail"])
            /\ UNCHANGED showtimes
       ELSE /\ showtimes' = mark_old_showtimes_inactive(showtimes, clock.today)
            /\ Set(p, FirstItem(s))
    /\ UNCHANGED <<movies, cinemas, runs, clock, up, vvars>>

\* process_scraped_data lines 134-147: the item's fields and the query of
\* get_or_create_movie.
MovieQ(p) ==
    LET s == proc[p] IN
    /\ s.pc = "movieQ"
    /\ Set(p, IF Incomplete(BatchOf(s)[s.i]) THEN NextItem(s)
              ELSE IF StmtRaises(s) THEN ItemExcept(SessionFailed(s))
              ELSE GetOrCreateMovieQuery(s))
    /\ UNCHANGED <<dbvars, clock, up, vvars>>

\* The outcome of the flush a process is about to make.
PendingFlush(s) ==
    CASE s.pc = "movieF" -> FlushList(s, NewMovieRows(s))
      [] s.pc = "cinemaF" -> FlushList(s, NewCinemaRows(s))
      [] s.pc = "commit" -> FlushList(s, <<>>)
      [] s.pc = "rMovieF" -> NewMovieRows(s)
      [] s.pc = "rCinemaF" -> NewCinemaRows(s)
      [] s.pc = "rShowF" -> FlushList(s, <<>>)

FlushPcs == {"movieF", "cinemaF", "commit", "rMovieF", "rCinemaF", "rShowF"}

Outcome(p) ==
    LET s == proc[p] IN
    IF StmtRaises(s) THEN "operational"
    ELSE FlushOutcome(Procs \ {p}, s, PendingFlush(s), 1, {})

\* The processes whose open transactions p's flush waits for.
WaitsFor(p) ==
    {q \in Procs \ {p} : FlushOutcome({q}, proc[p], PendingFlush(proc[p]), 1, {}) = "blocked"}

\* p's flush waits for a transaction that waits for p's: the database ends
\* the wait of one of them with an error.
Deadlocked(p) ==
    /\ proc[p].pc \in FlushPcs
    /\ Outcome(p) = "blocked"
    /\ \E q \in WaitsFor(p) :
          proc[q].pc \in FlushPcs /\ Outcome(q) = "blocked" /\ p \in WaitsFor(q)

\* get_or_create_movie lines 24-31 with outcome o of its flush, then lines
\* 148-150.
MovieFStep(s, o) ==
    IF o = "ok"
    THEN LET s1 == GetOrCreateMovieFlushed(s) IN [SeeMovie(s1, s1.movie) EXCEPT !.pc = "cinemaQ"]
    ELSE ItemExcept(SessionFailed(s))

\* get_or_create_cinema lines 50-58 with outcome o of its flush, then lines
\* 154-156.
CinemaFStep(s, o) ==
    IF o = "ok"
    THEN LET s1 == GetOrCreateCinemaFlushed(s) IN [SeeCinema(s1, s1.cinema) EXCEPT !.pc = "showQ"]
    ELSE ItemExcept(SessionFailed(s))

\* Lines 198-215: the commit with outcome o of its flush.  IntegrityError:
\* rollback and the replay; any other exception: rollback and the stats.
StartReplay(s) ==
    FirstItem([SessionRollback(s) EXCEPT !.path = "recovery", !.stats = ZeroStats,
                                         !.mseen = {}, !.cseen = {}])

MutCommitExceptReraises(s) == [SessionRollback(s) EXCEPT !.raised = TRUE, !.pc = "logfail"]

CommitExceptIntegrity(s) == StartReplay(s)

MutCommitExceptOtherNoRollback(s) ==
    [s EXCEPT !.stats.errors = @ + 1, !.path = "commit_failed", !.pc = "log"]

CommitExceptOther(s) ==
    [SessionRollback(s) EXCEPT !.stats.errors = @ + 1, !.path = "commit_failed", !.pc = "log"]

CommitStep(s, o) ==
    IF o = "ok" THEN [NoTx(s) EXCEPT !.path = "normal", !.pc = "log"]
    ELSE IF o = "integrity" THEN CommitExceptIntegrity(s)
    ELSE CommitExceptOther(s)

\* The process after its flush ended with outcome o.
FlushStep(s, o) ==
    CASE s.pc = "movieF" -> MovieFStep(s, o)
      [] s.pc = "cinemaF" -> CinemaFStep(s, o)
      [] s.pc = "commit" -> CommitStep(s, o)

MovieF(p) ==
    /\ proc[p].pc = "movieF"
    /\ Outcome(p) # "blocked"
    /\ Set(p, MovieFStep(proc[p], Outcome(p)))
    /\ UNCHANGED <<dbvars, clock, up, vvars>>

CinemaQ(p) ==
    LET s == proc[p] IN
    /\ s.pc = "cinemaQ"
    /\ Set(p, IF StmtRaises(s) THEN ItemExcept(SessionFailed(s))
              ELSE GetOrCreateCinemaQuery(s))
    /\ UNCHANGED <<dbvars, clock, up, vvars>>

CinemaF(p) ==
    /\ proc[p].pc = "cinemaF"
    /\ Outcome(p) # "blocked"
    /\ Set(p, CinemaFStep(proc[p], Outcome(p)))
    /\ UNCHANGED <<dbvars, clock, up, vvars>>

\* Lines 159-192: one entry of showtimes.
ShowQ(p) ==
    LET s == proc[p]
        parsed == ParseShowtimeItem(BatchOf(s)[s.i].showtimes[s.j], clock.today)
    IN  /\ s.pc = "showQ"
        /\ Set(p, IF parsed.res = "skip" THEN NextShowtime(s)
                  ELSE IF parsed.res = "ValueError" THEN ShowtimeExcept(s)
                  ELSE IF StmtRaises(s) THEN ShowtimeExcept(SessionFailed(s))
                  ELSE NextShowtime(add_showtime(s, parsed)))
        /\ UNCHANGED <<dbvars, clock, up, vvars>>

\* Line 200: self.db.commit().
Commit(p) ==
    LET s == proc[p]
        o == Outcome(p)
    IN  /\ s.pc = "commit"
        /\ o # "blocked"
        /\ Set(p, CommitStep(s, o))
        /\ IF o = "ok" THEN CommitTables(FlushPending(s))
           ELSE UNCHANGED <<movies, cinemas, showtimes>>
        /\ UNCHANGED <<runs, clock, up, vvars>>

\* The database breaks a deadlock: the waiting flush of p raises.
Deadlock(p) ==
    /\ Deadlocked(p)
    /\ proc[p].pc \in {"movieF", "cinemaF", "commit"}
    /\ Set(p, FlushStep(proc[p], "operational"))
    /\ UNCHANGED <<dbvars, clock, up, vvars>>

(***************************************************************************)
(* _reprocess_with_individual_commits, lines 217-316.  A flush and the     *)
(* commit that follows it are one step.                                    *)
(***************************************************************************)
\* Lines 311-313: except Exception around one item: rollback, next item.
ReplayItemExcept(s) == NextItem(SessionRollback(s))

\* Lines 307-309: except Exception around one showtime: rollback, next one.
ReplayShowtimeExcept(s) == NextShowtime(SessionRollback(s))

\* Lines 243-248: the query of get_or_create_movie; a movie found with
\* nothing to backfill is resolved and the commit of line 244 writes nothing.
RMovieQ(p) ==
    LET s == proc[p] IN
    /\ s.pc = "rMovieQ"
    /\ Set(p, IF Incomplete(BatchOf(s)[s.i]) THEN NextItem(s)
              ELSE IF StmtRaises(s) THEN ReplayItemExcept(s)
              ELSE GetOrCreateMovieQuery(s))
    /\ UNCHANGED <<dbvars, clock, up, vvars>>

\* Lines 243-248: the flush of get_or_create_movie and the commit.
RMovieF(p) ==
    LET s == proc[p]
        o == Outcome(p)
        s1 == GetOrCreateMovieFlushed(s)
    IN  /\ s.pc = "rMovieF"
        /\ o # "blocked"
        /\ IF o = "ok"
           THEN /\ CommitTables(s1)
                /\ Set(p, [SeeMovie(NoTx(s1), s1.movie) EXCEPT !.pc = "rCinemaQ"])
           ELSE /\ UNCHANGED <<movies, cinemas, showtimes>>
                /\ Set(p, ReplayItemExcept(s))
        /\ UNCHANGED <<runs, clock, up, vvars>>

\* Lines 250-255: the query of get_or_create_cinema.
RCinemaQ(p) ==
    LET s == proc[p] IN
    /\ s.pc = "rCinemaQ"
    /\ Set(p, IF StmtRaises(s) THEN ReplayItemExcept(s) ELSE GetOrCreateCinemaQuery(s))
    /\ UNCHANGED <<dbvars, clock, up, vvars>>

\* Lines 250-255: the flush of get_or_create_cinema and the commit.
RCinemaF(p) ==
    LET s == proc[p]
        o == Outcome(p)
        s1 == GetOrCreateCinemaFlushed(s)
    IN  /\ s.pc = "rCinemaF"
        /\ o # "blocked"
        /\ IF o = "ok"
           THEN /\ CommitTables(s1)
                /\ Set(p, [SeeCinema(NoTx(s1), s1.cinema) EXCEPT !.pc = "rShowQ"])
           ELSE /\ UNCHANGED <<movies, cinemas, showtimes>>
                /\ Set(p, ReplayItemExcept(s))
        /\ UNCHANGED <<runs, clock, up, vvars>>

\* Lines 258-305: one entry of showtimes: parsed, looked up, and, when the
\* row exists, updated and committed (lines 301-305); if not, the new
\* Showtime is added to the session (lines 290-298).
RShowQ(p) ==
    LET s == proc[p]
        parsed == ParseShowtimeItem(BatchOf(s)[s.i].showtimes[s.j], clock.today)
        ex == Existing(s, parsed)
    IN  /\ s.pc = "rShowQ"
        /\ IF parsed.res = "skip"
           THEN Set(p, NextShowtime(s)) /\ UNCHANGED showtimes
           ELSE IF parsed.res = "ValueError" \/ StmtRaises(s)
           THEN Set(p, ReplayShowtimeExcept(s)) /\ UNCHANGED showtimes
           ELSE IF ex # {}
           THEN /\ showtimes' = ApplyHeartbeats(showtimes,
                                                Heartbeat(s, CHOOSE x \in ex : TRUE).hb)
                /\ Set(p, NextShowtime(s))
           ELSE /\ Set(p, [s EXCEPT !.pend = <<NewShowtime(s, parsed)>>, !.pc = "rShowF"])
                /\ UNCHANGED showtimes
        /\ UNCHANGED <<movies, cinemas, runs, clock, up, vvars>>

\* Lines 298-300: the commit of the new Showtime.
RShowF(p) ==
    LET s == proc[p]
        o == Outcome(p)
        s1 == FlushPending(s)
    IN  /\ s.pc = "rShowF"
        /\ o # "blocked"
        /\ IF o = "ok"
           THEN /\ CommitTables(s1)
                /\ Set(p, NextShowtime([NoTx(s) EXCEPT !.stats.showtimes_added = @ + 1]))
           ELSE /\ UNCHANGED <<movies, cinemas, showtimes>>
                /\ Set(p, ReplayShowtimeExcept(s))
        /\ UNCHANGED <<runs, clock, up, vvars>>

(***************************************************************************)
(* The run ledger: log_scraper_run (scraper_service.py lines 330-360)      *)
(* through log_run (unified_scraper_db.py lines 183-211), which opens a    *)
(* session of its own and swallows every exception.                        *)
(***************************************************************************)
RunRow(p, s, status, mf, sf, started) ==
    [id |-> NextId(Ids(runs)), cycle |-> <<p, s.n>>, status |-> status,
     movies_found |-> mf, showtimes_found |-> sf, started_at |-> started,
     completed_at |-> clock.now]

MutLogRunReplaces(p, s, status, mf, sf, started) ==
    runs' = IF up THEN {RunRow(p, s, status, mf, sf, started)} ELSE runs

log_run(p, s, status, mf, sf, started) ==
    runs' = IF up THEN runs \cup {RunRow(p, s, status, mf, sf, started)} ELSE runs

\* scraper_status of api/routers/scraper.py, lines 126-144: the status GET
\* /scraper/status may report: of the record with the latest started_at,
\* "completed" if it has a completed_at and "running" if it has none (a
\* completed_at that is NULL is a time below zero).
scraper_status ==
    IF runs = {} THEN {"never_run"}
    ELSE {IF r.completed_at >= 0 THEN "completed" ELSE "running"
          : r \in {x \in runs : \A y \in runs : y.started_at <= x.started_at}}

\* What a process keeps once its cycle has ended.
Final(s, pc) ==
    [IdleProc EXCEPT !.pc = pc, !.n = s.n, !.batch = s.batch, !.stats = s.stats,
                     !.path = s.path, !.raised = s.raised,
                     !.day0 = s.day0, !.cat0 = s.cat0, !.prev = s.prev]

\* main() lines 241-251: process_scraped_data has returned its stats and
\* the run is logged as a success.
Log(p) ==
    LET s == proc[p] IN
    /\ s.pc = "log"
    /\ log_run(p, s, "success", s.stats.movies_processed, s.stats.showtimes_added, s.started)
    /\ Set(p, Final(s, "done"))
    /\ UNCHANGED <<movies, cinemas, showtimes, clock, up, vvars>>

\* main() lines 257-276: the handler of an exception of the cycle logs a
\* failed run, started and completed now, and exits with status 1.
LogFail(p) ==
    LET s == proc[p] IN
    /\ s.pc = "logfail"
    /\ log_run(p, s, "failed", 0, 0, clock.now)
    /\ Set(p, Final(s, "exit1"))
    /\ UNCHANGED <<movies, cinemas, showtimes, clock, up, vvars>>

\* api/routers/scraper.py lines 65-72: the process is killed; the database
\* rolls back its open transaction.
Kill(p) ==
    /\ ~Ended(proc[p])
    /\ Set(p, Final([proc[p] EXCEPT !.stats = ZeroStats, !.path = "none"], "killed"))
    /\ UNCHANGED <<dbvars, clock, up, vvars>>

(***************************************************************************)
(* The read model: get_showtimes of api/routers/showtimes.py (GET          *)
(* /showtimes/).  An optional query parameter is the empty set when it is  *)
(* not given, and the set of its value when it is.                         *)
(***************************************************************************)
MaxSkip == 1

NoRequest ==
    [island |-> None, cinema_id |-> {}, showtime_date |-> {}, from_date |-> {},
     skip |-> 0, limit |-> 0, rows |-> <<>>]

The(o) == CHOOSE v \in o : TRUE

\* Lines 58-75: the joins and the filters, on a Showtime x, a Movie m and a
\* Cinema c.
MutMatchesInactiveToo(x, m, c, q, today) ==
    /\ x.movie_id = m.id
    /\ x.cinema_id = c.id
    /\ Truthy(q.island) => c.island = q.island
    /\ (q.cinema_id # {} /\ The(q.cinema_id) # 0) => c.id = The(q.cinema_id)
    /\ IF q.showtime_date # {} THEN x.date = The(q.showtime_date)
       ELSE IF q.from_date # {} THEN x.date >= The(q.from_date)
       ELSE x.date >= today

Matches(x, m, c, q, today) ==
    /\ x.movie_id = m.id
    /\ x.cinema_id = c.id
    /\ x.active
    /\ Truthy(q.island) => c.island = q.island
    /\ (q.cinema_id # {} /\ The(q.cinema_id) # 0) => c.id = The(q.cinema_id)
    /\ IF q.showtime_date # {} THEN x.date = The(q.showtime_date)
       ELSE IF q.from_date # {} THEN x.date >= The(q.from_date)
       ELSE x.date >= today

\* Lines 36-57: the columns of a row of the response.
ResponseRow(x, m, c) ==
    [id |-> x.id, title |-> m.title, link |-> m.link, cinema_name |-> c.name,
     cinema_location |-> c.location, island |-> c.island, showtime_date |-> x.date,
     showtime_time |-> x.time, version |-> x.version, scraped_at |-> x.scraped_at]

\* The code points of the characters of the titles.
Ord(ch) == CASE ch = " " -> 32 [] ch = "a" -> 97 [] ch = "b" -> 98 [] ch = "c" -> 99

RECURSIVE StrLess(_, _)
StrLess(u, v) ==
    IF v = <<>> THEN FALSE
    ELSE IF u = <<>> THEN TRUE
    ELSE IF u[1] = v[1] THEN StrLess(Tail(u), Tail(v))
    ELSE Ord(u[1]) < Ord(v[1])

\* Lines 78-82: ORDER BY showtime_date, showtime_time, title.
OrderedBefore(a, b) ==
    \/ a.showtime_date < b.showtime_date
    \/ /\ a.showtime_date = b.showtime_date
       /\ \/ a.showtime_time[1] < b.showtime_time[1]
          \/ /\ a.showtime_time[1] = b.showtime_time[1]
             /\ \/ a.showtime_time[2] < b.showtime_time[2]
                \/ a.showtime_time[2] = b.showtime_time[2] /\ StrLess(a.title, b.title)

\* The orders storage may return the rows in: rows the ORDER BY does not
\* tell apart come in any order.
RECURSIVE OrderBy(_)
OrderBy(S) ==
    IF S = {} THEN {<<>>}
    ELSE UNION {{<<r>> \o rest : rest \in OrderBy(S \ {r})}
                : r \in {y \in S : \A z \in S : ~OrderedBefore(z, y)}}

\* Line 85: OFFSET skip LIMIT limit.
Page(o, skip, limit) ==
    SubSeq(o, skip + 1, IF skip + limit < Len(o) THEN skip + limit ELSE Len(o))

\* The responses of get_showtimes to the request q.
get_showtimes(q) ==
    LET found == {ResponseRow(t[1], t[2], t[3]) :
                    t \in {u \in showtimes \X movies \X cinemas :
                              Matches(u[1], u[2], u[3], q, clock.today)}}
    IN  {Page(o, q.skip, q.limit) : o \in OrderBy(found)}

\* GET /showtimes/ is answered.
GetShowtimes(island, cinema_id, showtime_date, from_date, skip, limit) ==
    LET q == [island |-> island, cinema_id |-> cinema_id, showtime_date |-> showtime_date,
              from_date |-> from_date, skip |-> skip, limit |-> limit, rows |-> <<>>]
    IN  /\ up
        /\ qout = NoRequest
        /\ \E rows \in get_showtimes(q) : qout' = [q EXCEPT !.rows = rows]
        /\ UNCHANGED <<dbvars, clock, up, proc, vin, vout, task, cli>>

\* The response has been sent.
Respond ==
    /\ qout # NoRequest
    /\ qout' = NoRequest
    /\ UNCHANGED <<dbvars, clock, up, proc, vin, vout, task, cli>>

(***************************************************************************)
(* The subprocess supervisor: run_scraper_task of api/routers/scraper.py,  *)
(* lines 24-76.  The subprocess is a process of the model running main().  *)
(*   pc: "idle", "spawn" (the task is queued), "waiting" (in wait_for),    *)
(*       "timeout" (in the handler of TimeoutError), "returned";           *)
(*   status: the status of the dict the task returned;                     *)
(*   raised: an exception left the task.                                   *)
(***************************************************************************)
IdleTask == [pc |-> "idle", status |-> None, raised |-> FALSE]

\* trigger_scraper, line 98: background_tasks.add_task(run_scraper_task).
TaskTrigger ==
    /\ task.pc = "idle"
    /\ task' = [task EXCEPT !.pc = "spawn"]
    /\ UNCHANGED <<dbvars, clock, up, proc, vin, vout, qout, cli>>

\* Lines 74-76: except Exception around the whole task.
TaskExcept(t) == [t EXCEPT !.pc = "returned", !.status = "error"]

\* Lines 43-48: create_subprocess_exec starts the subprocess, or raises.
TaskSpawn ==
    /\ task.pc = "spawn"
    /\ \E started \in BOOLEAN :
          task' = IF started THEN [task EXCEPT !.pc = "waiting"] ELSE TaskExcept(task)
    /\ UNCHANGED <<dbvars, clock, up, proc, vin, vout, qout, cli>>

\* The subprocess has exited: main() returned, called sys.exit(1), or the
\* process was killed.  Before the cycle starts it is running scrape_all.
Exited(s) == s.pc \in {"done", "exit1", "killed"}

\* Lines 57-63: the status for the return code of the subprocess: 0 when
\* main() returned, 1 after sys.exit(1).
StatusOfExit(pc) == IF pc = "done" THEN "success" ELSE "error"

\* Lines 52-63: communicate() returned, the subprocess has exited; decoding
\* stderr for the log may raise, which line 74 catches.
TaskCompleted(p) ==
    /\ task.pc = "waiting"
    /\ proc[p].pc \in {"done", "exit1"}
    /\ \E decoded \in BOOLEAN :
          task' = IF decoded \/ proc[p].pc = "done"
                  THEN [task EXCEPT !.pc = "returned", !.status = StatusOfExit(proc[p].pc)]
                  ELSE TaskExcept(task)
    /\ UNCHANGED <<dbvars, clock, up, proc, vin, vout, qout, cli>>

\* Line 65: SCRAPER_TIMEOUT seconds have passed and the subprocess has not
\* exited: wait_for raises TimeoutError.
TaskTimeout(p) ==
    /\ task.pc = "waiting"
    /\ ~Exited(proc[p])
    /\ task' = [task EXCEPT !.pc = "timeout"]
    /\ UNCHANGED <<dbvars, clock, up, proc, vin, vout, qout, cli>>

\* Lines 67-71: process.kill() and process.wait(); kill() of a subprocess
\* that has exited meanwhile raises, and the bare except swallows it.  The
\* database rolls back the open transaction of a killed process.
MutTimeoutWithoutKill(s) == s

KillOnTimeout(s) ==
    IF Exited(s) THEN s
    ELSE Final([s EXCEPT !.stats = ZeroStats, !.path = "none"], "killed")

\* Lines 65-72: the handler of TimeoutError.
TaskKill(p) ==
    /\ task.pc = "timeout"
    /\ Set(p, KillOnTimeout(proc[p]))
    /\ task' = [task EXCEPT !.pc = "returned", !.status = "timeout"]
    /\ UNCHANGED <<dbvars, clock, up, vin, vout, qout, cli>>

(***************************************************************************)
(* The command line: main() of scrapers/unified_scraper_db.py, lines       *)
(* 216-238, and scrape_all, lines 52-119.                                  *)
(*   pc: 0 when main() is not run from a command line of the model, the    *)
(*       position of scrape_all among the collectors, or AllScraped;       *)
(*   cineciutat, aficine: the flags --cineciutat and --aficine;            *)
(*   ran: the collectors scrape_all has run.                               *)
(***************************************************************************)
Collectors == <<"cineciutat", "aficine", "moix_negre", "bulletin">>

\* The position of scrape_all after its last collector.
AllScraped == Len(Collectors) + 1

NoCli == [pc |-> 0, cineciutat |-> FALSE, aficine |-> FALSE, ran |-> {}]

\* main() lines 224-238 and the defaults of scrape_all (lines 52-53): which
\* collectors scrape_all is asked to run.  main() passes include_cineciutat
\* and include_aficine; include_moix_negre and include_bulletin keep their
\* default.
Included(a) ==
    [cineciutat |-> IF a.cineciutat \/ a.aficine THEN a.cineciutat ELSE TRUE,
     aficine    |-> IF a.cineciutat \/ a.aficine THEN a.aficine ELSE TRUE,
     moix_negre |-> TRUE,
     bulletin   |-> TRUE]

\* scrape_all lines 62-112: the block of one collector; the collector runs
\* if it is included, and what it raises is caught.
Collect ==
    /\ cli.pc \in DOMAIN Collectors
    /\ cli' = [cli EXCEPT !.ran = IF Included(cli)[Collectors[cli.pc]]
                                  THEN @ \cup {Collectors[cli.pc]} ELSE @,
                          !.pc = cli.pc + 1]
    /\ UNCHANGED <<dbvars, clock, up, proc, vin, vout, qout, task>>

(***************************************************************************)
(* The environment: the clock and the reachability of storage.             *)
(***************************************************************************)
Tick ==
    /\ clock.now < MaxNow
    /\ clock' = [clock EXCEPT !.now = @ + 1]
    /\ UNCHANGED <<dbvars, up, proc, vvars>>

Midnight ==
    /\ clock.today < MaxDay
    /\ clock' = [clock EXCEPT !.today = @ + 1]
    /\ UNCHANGED <<dbvars, up, proc, vvars>>

Outage ==
    /\ up
    /\ up' = FALSE
    /\ UNCHANGED <<dbvars, clock, proc, vvars>>

Restore ==
    /\ ~up
    /\ up' = TRUE
    /\ UNCHANGED <<dbvars, clock, proc, vvars>>

(***************************************************************************)
(* Specifications.                                                         *)
(***************************************************************************)
ProcIds == {"p1", "p2"}

\* The tables before any cycle, and the tables an earlier cycle left.
EmptyTables == [movies |-> {}, cinemas |-> {}, showtimes |-> {}]

EarlierTables ==
    [movies |-> {[id |-> 1, title |-> <<"a">>, link |-> None]},
     cinemas |-> {[id |-> 1, name |-> "X", location |-> "L", island |-> "Mallorca"]},
     showtimes |-> {[id |-> 1, movie_id |-> 1, cinema_id |-> 1, date |-> 0,
                     time |-> <<9, 30>>, version |-> "VOSE", active |-> TRUE,
                     scraped_at |-> 0],
                    [id |-> 2, movie_id |-> 1, cinema_id |-> 1, date |-> 1,
                     time |-> <<9, 30>>, version |-> "VOSE", active |-> TRUE,
                     scraped_at |-> 0]}]

InitWith(tables, inputs) ==
    /\ movies = tables.movies
    /\ cinemas = tables.cinemas
    /\ showtimes = tables.showtimes
    /\ runs = {}
    /\ clock = [now |-> 1, today |-> 1]
    /\ up = TRUE
    /\ proc = [p \in ProcIds |-> IdleProc]
    /\ vin = inputs
    /\ vout = NotRun
    /\ qout = NoRequest
    /\ task = IdleTask
    /\ cli = NoCli

Init == \E tables \in {EmptyTables, EarlierTables} : InitWith(tables, <<>>)

Step(p) ==
    \/ \E b \in DOMAIN CycleBatches : Start(p, b)
    \/ Sweep(p)
    \/ MovieQ(p)
    \/ MovieF(p)
    \/ CinemaQ(p)
    \/ CinemaF(p)
    \/ ShowQ(p)
    \/ Commit(p)
    \/ Deadlock(p)
    \/ RMovieQ(p)
    \/ RMovieF(p)
    \/ RCinemaQ(p)
    \/ RCinemaF(p)
    \/ RShowQ(p)
    \/ RShowF(p)
    \/ Log(p)
    \/ Kill(p)

Next == (\E p \in ProcIds : Step(p)) \/ Tick \/ Midnight

\* Concurrent ingestion cycles over reachable storage.
Spec == Init /\ [][Next]_vars

\* One process at a time, over storage that comes and goes.
RunStep(p) ==
    \/ \E b \in DOMAIN CycleBatches : Start(p, b)
    \/ Sweep(p)
    \/ MovieQ(p)
    \/ MovieF(p)
    \/ CinemaQ(p)
    \/ CinemaF(p)
    \/ ShowQ(p)
    \/ Commit(p)
    \/ RMovieQ(p)
    \/ RMovieF(p)
    \/ RCinemaQ(p)
    \/ RCinemaF(p)
    \/ RShowQ(p)
    \/ RShowF(p)
    \/ Log(p)
    \/ LogFail(p)
    \/ Kill(p)

RunNext == (\E p \in {"p1"} : RunStep(p)) \/ Tick \/ Midnight \/ Outage \/ Restore

SpecRun == Init /\ [][RunNext]_vars

\* The requests of the readers: island, cinema, date and first date given or
\* not, the first or the second page, of one row or of the default size.
Requests ==
    {q \in [island : {None, "Mallorca", "Ibiza"}, cinema_id : {{}, {0}, {1}},
            showtime_date : {{}, {0}, {1}}, from_date : {{}, {0}},
            skip : 0..MaxSkip, limit : {1, 100}] : q.skip = 0 \/ q.limit = 1}

\* One process, and the readers of the catalog.
ReadStep(p) ==
    \/ \E b \in DOMAIN CycleBatches : Start(p, b)
    \/ Sweep(p)
    \/ MovieQ(p)
    \/ MovieF(p)
    \/ CinemaQ(p)
    \/ CinemaF(p)
    \/ ShowQ(p)
    \/ Commit(p)
    \/ RMovieQ(p)
    \/ RMovieF(p)
    \/ RCinemaQ(p)
    \/ RCinemaF(p)
    \/ RShowQ(p)
    \/ RShowF(p)
    \/ Log(p)

Read ==
    \E q \in Requests :
       GetShowtimes(q.island, q.cinema_id, q.showtime_date, q.from_date, q.skip, q.limit)

ReadNext == (\E p \in {"p1"} : ReadStep(p)) \/ Midnight \/ Read \/ Respond

SpecRead == Init /\ [][ReadNext]_vars

\* The supervisor and its subprocess: one run of main(), over storage that
\* comes and goes.
TaskSub(p) ==
    /\ task.pc \in {"waiting", "timeout"}
    /\ \/ proc[p].n = 0 /\ \E b \in DOMAIN CycleBatches : Start(p, b)
       \/ Sweep(p)
       \/ MovieQ(p)
       \/ MovieF(p)
       \/ CinemaQ(p)
       \/ CinemaF(p)
       \/ ShowQ(p)
       \/ Commit(p)
       \/ RMovieQ(p)
       \/ RMovieF(p)
       \/ RCinemaQ(p)
       \/ RCinemaF(p)
       \/ RShowQ(p)
       \/ RShowF(p)
       \/ Log(p)
       \/ LogFail(p)

\* The steps of the supervisor the event loop takes by itself.
TaskStep(p) == TaskSpawn \/ TaskCompleted(p) \/ TaskTimeout(p) \/ TaskKill(p)

TaskNext ==
    \/ TaskTrigger
    \/ \E p \in {"p1"} : TaskStep(p) \/ TaskSub(p)
    \/ Outage
    \/ Restore

\* The event loop runs a task that can take a step, and the timer of
\* wait_for fires.
SpecTask == Init /\ [][TaskNext]_vars /\ WF_vars(\E p \in {"p1"} : TaskStep(p))

\* main() run from a command line: the flags, the collectors, then the
\* cycle.
CliInit ==
    \E tables \in {EmptyTables, EarlierTables} : \E cineciutat, aficine \in BOOLEAN :
       /\ movies = tables.movies
       /\ cinemas = tables.cinemas
       /\ showtimes = tables.showtimes
       /\ runs = {}
       /\ clock = [now |-> 1, today |-> 1]
       /\ up = TRUE
       /\ proc = [p \in ProcIds |-> IdleProc]
       /\ vin = <<>>
       /\ vout = NotRun
       /\ qout = NoRequest
       /\ task = IdleTask
       /\ cli = [pc |-> 1, cineciutat |-> cineciutat, aficine |-> aficine, ran |-> {}]

\* main() after scrape_all has returned: one cycle.
CliCycle(p) ==
    /\ cli.pc = AllScraped
    /\ proc[p].n = 0 \/ ~Ended(proc[p])
    /\ ReadStep(p)

CliNext == Collect \/ (\E p \in {"p1"} : CliCycle(p)) \/ Midnight

SpecCli == CliInit /\ [][CliNext]_vars

\* The validator on its own.
VInit == \E inputs \in SeqsUpTo(RawRecords, MaxBatch) : InitWith(EmptyTables, inputs)

VNext == VValidate /\ UNCHANGED <<dbvars, clock, up, proc>>

SpecV == VInit /\ [][VNext]_vars

(***************************************************************************)
(* Properties.                                                             *)
(***************************************************************************)
\* The natural keys of the showtimes a batch asks to store.
BatchKeys(b) ==
    LET items == ValidatedBatches[b].valid_movies IN
    UNION {{<<items[i].title, <<items[i].cinema, items[i].location>>,
              ParseShowtimeItem(items[i].showtimes[j], clock.today).date,
              ParseShowtimeItem(items[i].showtimes[j], clock.today).time>>
            : j \in {k \in DOMAIN items[i].showtimes :
                       ParseShowtimeItem(items[i].showtimes[k], clock.today).res = "ok"}}
           : i \in DOMAIN items}

RowsOfKey(k) == {x \in showtimes : NaturalKey(x) = k}

\* C1: in every reachable state, whatever the interleaving of cycles, their
\* commit paths, sweeps and kills, no two Showtime rows have the same
\* (movie, cinema, date, time).
C1_ShowtimeKeyUnique ==
    \A x, y \in showtimes : ShowtimeKey(x) = ShowtimeKey(y) => x = y

\* A cycle went through the recovery path, that is, storage refused a second
\* row of a key, and ended with rows in the table.
C1_Witness ==
    \E p \in ProcIds : proc[p].pc = "done" /\ proc[p].path = "recovery" /\ showtimes # {}

\* C3: when two cycles have run, each in its own session, and both asked to
\* store the same (movie, cinema, date, time), exactly one Showtime row of
\* that key exists, and no call of process_scraped_data has raised.
C3_ConflictRecovery ==
    /\ \A p \in ProcIds : ~proc[p].raised /\ proc[p].pc # "logfail"
    /\ \A p, q \in ProcIds :
         (p # q /\ proc[p].pc = "done" /\ proc[q].pc = "done")
           => \A k \in BatchKeys(proc[p].batch) \cap BatchKeys(proc[q].batch) :
                 Cardinality(RowsOfKey(k)) = 1

\* Two cycles with the one-showtime batch overlapped; one committed on the
\* normal path, the other's commit was refused and it went through recovery.
C3_Witness ==
    \E p, q \in ProcIds :
       /\ p # q
       /\ proc[p].pc = "done" /\ proc[p].batch = 1 /\ proc[p].path = "normal"
       /\ proc[q].pc = "done" /\ proc[q].batch = 1 /\ proc[q].path = "recovery"
       /\ \A k \in BatchKeys(1) : Cardinality(RowsOfKey(k)) = 1

\* C6: a sweep sets inactive exactly the rows that are active and dated
\* before today and leaves every other row as it is; a second sweep of the
\* result changes no row and reports zero rows.
C6_SweepExact ==
    [][\A p \in ProcIds :
          (proc[p].pc = "sweep" /\ proc'[p].pc \notin {"sweep", "killed"})
            => /\ \A r \in showtimes :
                    IF r.date < clock.today /\ r.active
                    THEN [r EXCEPT !.active = FALSE] \in showtimes' /\ r \notin showtimes'
                    ELSE r \in showtimes'
               /\ Cardinality(showtimes') = Cardinality(showtimes)
               /\ mark_old_showtimes_inactive(showtimes', clock.today) = showtimes'
               /\ SweepResult(showtimes', clock.today) = 0]_vars

\* A sweep has set a past row inactive and left a row of today active.
C6_Witness ==
    /\ \E p \in ProcIds : proc[p].pc = "movieQ" /\ proc[p].i = 1
    /\ \E x, y \in showtimes :
          /\ x.date < clock.today /\ ~x.active
          /\ y.date >= clock.today /\ y.active

\* The catalog an uninterrupted cycle leaves when it runs alone on catalog
\* cat: the past rows swept, then every record's movie, cinema and readable
\* showtimes stored, a missing link filled in, every stored showtime active.
ExpSweep(cat, today) ==
    [cat EXCEPT !.showtimes = {IF x[1][3] < today THEN <<x[1], x[2], FALSE>> ELSE x : x \in @}]

ExpMovie(cat, item) ==
    LET found == {m \in cat.movies : m[1] = item.title} IN
    IF found = {} THEN [cat EXCEPT !.movies = @ \cup {<<item.title, item.link>>}]
    ELSE IF Truthy(item.link) /\ \E m \in found : ~Truthy(m[2])
    THEN [cat EXCEPT !.movies = (@ \ found) \cup {<<item.title, item.link>>}]
    ELSE cat

ExpCinema(cat, item) ==
    IF \E c \in cat.cinemas : c[1] = item.cinema /\ c[2] = item.location THEN cat
    ELSE [cat EXCEPT !.cinemas = @ \cup {<<item.cinema, item.location, item.island>>}]

ExpEntry(cat, item, e, today) ==
    LET parsed == ParseShowtimeItem(e, today)
        k == <<item.title, <<item.cinema, item.location>>, parsed.date, parsed.time>>
        old == {x \in cat.showtimes : x[1] = k}
    IN  IF parsed.res # "ok" THEN cat
        ELSE IF old = {} THEN [cat EXCEPT !.showtimes = @ \cup {<<k, item.version, TRUE>>}]
        ELSE [cat EXCEPT !.showtimes = (@ \ old) \cup {<<x[1], x[2], TRUE>> : x \in old}]

RECURSIVE ExpEntries(_, _, _, _)
ExpEntries(cat, item, j, today) ==
    IF j > Len(item.showtimes) THEN cat
    ELSE ExpEntries(ExpEntry(cat, item, item.showtimes[j], today), item, j + 1, today)

RECURSIVE ExpItems(_, _, _, _)
ExpItems(cat, items, i, today) ==
    IF i > Len(items) THEN cat
    ELSE ExpItems(ExpEntries(ExpCinema(ExpMovie(cat, items[i]), items[i]), items[i], 1, today),
                  items, i + 1, today)

Expected(cat, b, today) ==
    ExpItems(ExpSweep(cat, today), ValidatedBatches[b].valid_movies, 1, today)

\* The cycle of p ran to its end with no other process around and no
\* midnight since it started.
RanAlone(p) == proc[p].pc = "done" /\ Alone(p) /\ proc[p].day0 = clock.today

\* The cycle of p came after one of the same batch on the same day that
\* ended as `end`.
Rerun(p, end) ==
    /\ proc[p].prev.end = end
    /\ proc[p].prev.batch = proc[p].batch
    /\ proc[p].prev.day = clock.today

\* C2: a cycle that ingests the batch the cycle before it ingested, on the
\* same day, leaves the Movie, Cinema and Showtime rows it found, keys and
\* active flags alike; scraped_at is the one thing that may differ.
C2_Idempotent ==
    \A p \in ProcIds : (RanAlone(p) /\ Rerun(p, "done")) => Catalog = proc[p].cat0

\* The first cycle changed the catalog, and the second cycle of the same
\* batch has confirmed every showtime of the batch after the clock moved on.
C2_Witness ==
    \E p \in ProcIds :
       /\ RanAlone(p) /\ Rerun(p, "done")
       /\ proc[p].prev.cat0 # proc[p].cat0
       /\ BatchKeys(proc[p].batch) # {}
       /\ \A k \in BatchKeys(proc[p].batch) : \E x \in RowsOfKey(k) : x.scraped_at > 1

\* C5: when the upsert of a batch entry finds the row of its key, then once
\* the upsert is committed, on the normal path or on the recovery path, the
\* row's scraped_at is the time of the upsert, the row is active, and the
\* table holds as many rows of that key as before.
C5_Heartbeat ==
    [][\A p \in ProcIds :
          /\ (proc[p].pc = "commit" /\ proc'[p].pc = "log" /\ proc'[p].path = "normal")
               => \A h \in proc[p].hb : \E y \in showtimes' :
                     /\ y.id = h.id /\ y.scraped_at = h.at /\ y.active
                     /\ \A z \in showtimes' : ShowtimeKey(z) = ShowtimeKey(y) => z = y
          /\ (proc[p].pc = "rShowQ" /\ proc'[p].pc # "killed" /\ showtimes' # showtimes)
               => \E x \in showtimes : \E y \in showtimes' :
                     /\ showtimes' = (showtimes \ {x}) \cup {y}
                     /\ y.id = x.id /\ ShowtimeKey(y) = ShowtimeKey(x)
                     /\ y.scraped_at = clock.now /\ y.active]_vars

\* C9: a cycle that has ended, whichever way, has exactly one RunRecord.
C9_OneRunRecord ==
    \A p \in ProcIds :
       proc[p].pc \in {"done", "exit1", "killed"}
         => Cardinality({r \in runs : r.cycle = <<p, proc[p].n>>}) = 1

\* C10: in every state, killed cycles included, no two Movie, Cinema or
\* Showtime rows have the same key and every Showtime refers to a Movie and
\* a Cinema that exist; a cycle that runs alone to its end leaves the
\* catalog of an uninterrupted cycle, and so does the cycle that follows a
\* killed cycle of the same batch: the catalog an uninterrupted cycle would
\* have left from where the killed one started.
C10_KillSafe ==
    /\ \A x, y \in movies : x.title = y.title => x = y
    /\ \A x, y \in cinemas : CinemaKey(x) = CinemaKey(y) => x = y
    /\ \A x, y \in showtimes : ShowtimeKey(x) = ShowtimeKey(y) => x.id = y.id
    /\ \A x \in showtimes : x.movie_id \in Ids(movies) /\ x.cinema_id \in Ids(cinemas)
    /\ \A p \in ProcIds :
          RanAlone(p) => Catalog = Expected(proc[p].cat0, proc[p].batch, clock.today)
    /\ \A p \in ProcIds :
          (RanAlone(p) /\ Rerun(p, "killed"))
            => Catalog = Expected(proc[p].prev.cat0, proc[p].batch, clock.today)

\* A cycle was killed after it had committed part of its batch, and the
\* cycle after it, on the same batch, has ended.
C10_Witness ==
    \E p \in ProcIds :
       /\ RanAlone(p) /\ Rerun(p, "killed")
       /\ proc[p].prev.cat0.movies # proc[p].cat0.movies
       /\ Catalog # proc[p].cat0

\* The records of the input the schema accepts, as validate_movies returns
\* them, in input order.
RECURSIVE Accepted(_, _)
Accepted(input, i) ==
    IF i > Len(input) THEN <<>>
    ELSE IF ScrapedMovieErrors(input[i]) = <<>>
    THEN <<ScrapedMovie(input[i])>> \o Accepted(input, i + 1)
    ELSE Accepted(input, i + 1)

Invalid(input) == {i \in DOMAIN input : ScrapedMovieErrors(input[i]) # <<>>}

\* C4: of N valid and M invalid records validate_movies returns the N valid
\* ones in input order, and a report with total_items = N + M, valid_items
\* = N, invalid_items = M, M error entries, and valid exactly when M = 0.
C4_PartialAcceptance ==
    vout # NotRun =>
       LET M == Cardinality(Invalid(vin))
           N == Len(vin) - M
       IN  /\ vout.valid_movies = Accepted(vin, 1)
           /\ Len(vout.valid_movies) = N
           /\ vout.result.total_items = N + M
           /\ vout.result.valid_items = N
           /\ vout.result.invalid_items = M
           /\ Len(vout.result.errors) = M
           /\ vout.result.valid = (M = 0)

\* A batch of one valid record and one record with several failing fields
\* has been validated.
C4_Witness ==
    /\ vout # NotRun
    /\ vout.result.valid_items = 1
    /\ vout.result.invalid_items = 1
    /\ \E i \in DOMAIN vin : Len(ScrapedMovieErrors(vin[i])) > 1

\* C7: a record that is valid but for its showtimes being bare time strings
\* passes the validator.
LegacyShape(r) ==
    /\ Has(r, "showtimes")
    /\ r.showtimes # <<>>
    /\ \A j \in DOMAIN r.showtimes :
          r.showtimes[j].kind = "str" /\ validate_time(r.showtimes[j].time)
    /\ ScrapedMovieErrors(With(r, "showtimes", <<Dated(Ymd(1), T1800)>>)) = <<>>

C7_LegacyAccepted ==
    vout # NotRun =>
       \A i \in DOMAIN vin :
          LegacyShape(vin[i]) =>
             /\ \A k \in DOMAIN vout.result.errors : vout.result.errors[k].index # i - 1
             /\ vout.result.valid_items > 0

C11_NoDeactivationByAbsence ==
    [][\A x \in showtimes :
          /\ \E y \in showtimes' : y.id = x.id /\ ShowtimeKey(y) = ShowtimeKey(x)
          /\ \A y \in showtimes' :
                (y.id = x.id /\ x.active /\ ~y.active)
                  => /\ x.date < clock.today
                     /\ \E p \in ProcIds : proc[p].pc = "sweep" /\ proc'[p].pc # "sweep"]_vars

\* A cycle has run alone to its end; a row of the catalog it started with is
\* dated today or later, is not named by its batch, and is active.
C11_Witness ==
    \E p \in ProcIds :
       /\ RanAlone(p)
       /\ BatchKeys(proc[p].batch) # {}
       /\ \E x \in showtimes :
             /\ x.date >= clock.today /\ x.active
             /\ NaturalKey(x) \notin BatchKeys(proc[p].batch)
             /\ <<NaturalKey(x), x.version, TRUE>> \in proc[p].cat0.showtimes

\* C12: when a cycle has run alone to its end, every row that was active
\* and dated before today when it started, and that its sweep therefore set
\* inactive, is inactive: the batch of the cycle has not made it active again.
C12_SweptStaysInactive ==
    \A p \in ProcIds :
       RanAlone(p) =>
          \A x \in showtimes :
             (x.date < clock.today /\ <<NaturalKey(x), x.version, TRUE>> \in proc[p].cat0.showtimes)
               => ~x.active

\* C13: a cycle whose session lost storage, at a query or a flush of identity
\* resolution or at the commit of the batch, so that the commit raised an
\* error that is no uniqueness violation, has no RunRecord of status success:
\* the record of the cycle, if there is one, has status failed.
C13_StorageFailureRecordedFailed ==
    \A p \in ProcIds :
       proc[p].path = "commit_failed"
         => \A r \in runs : r.cycle = <<p, proc[p].n>> => r.status = "failed"

\* C14: at most one Movie per title and one Cinema per (name, location),
\* in every state; the Movie and the Cinema a cycle has resolved for a record
\* are rows of the record's title and of its name and location; and when a
\* cycle has run alone to its end, every record of its batch has exactly one
\* Movie of its title and one Cinema of its name and location, so that one
\* name at two locations is two rows.
C14_IdentityResolution ==
    /\ \A x, y \in movies : x.title = y.title => x = y
    /\ \A x, y \in cinemas : CinemaKey(x) = CinemaKey(y) => x = y
    /\ \A p \in ProcIds :
          LET s == proc[p] IN
          (s.i > 0 /\ ~s.failed) =>
             /\ s.movie # 0 =>
                   \E m \in VisMovies(s) : m.id = s.movie /\ m.title = BatchOf(s)[s.i].title
             /\ s.cinema # 0 =>
                   \E c \in VisCinemas(s) :
                      /\ c.id = s.cinema
                      /\ CinemaKey(c) = <<BatchOf(s)[s.i].cinema, BatchOf(s)[s.i].location>>
    /\ \A p \in ProcIds :
          RanAlone(p) =>
             LET items == ValidatedBatches[proc[p].batch].valid_movies IN
             \A i \in DOMAIN items :
                /\ Cardinality({m \in movies : m.title = items[i].title}) = 1
                /\ Cardinality({c \in cinemas :
                                  CinemaKey(c) = <<items[i].cinema, items[i].location>>}) = 1

\* A cycle has run alone to its end on a batch that names one cinema name at
\* two locations, and the catalog holds two Cinema rows of that name.
C14_Witness ==
    \E p \in ProcIds :
       /\ RanAlone(p)
       /\ \E i, j \in DOMAIN ValidatedBatches[proc[p].batch].valid_movies :
             LET items == ValidatedBatches[proc[p].batch].valid_movies IN
             items[i].cinema = items[j].cinema /\ items[i].location # items[j].location
       /\ \E c, d \in cinemas : c.name = d.name /\ c.location # d.location /\ c.id # d.id

\* The four rules C15 names: a required field missing, an island outside the
\* four islands, an empty list of showtimes, a showtime date that is not
\* year-month-day.
BreaksRule(r) ==
    \/ \E k \in {"title", "cinema", "location", "island", "showtimes", "scraped_at"} : ~Has(r, k)
    \/ Has(r, "island") /\ r.island \notin {"Mallorca", "Menorca", "Ibiza", "Formentera"}
    \/ Has(r, "showtimes") /\ r.showtimes = <<>>
    \/ /\ Has(r, "showtimes")
       /\ \E j \in DOMAIN r.showtimes :
             /\ r.showtimes[j].kind = "dict"
             /\ Has(r.showtimes[j], "date")
             /\ r.showtimes[j].date.fmt # "ymd"

\* The records of batch b that break none of the four rules.
Lawful(b) == {CycleBatches[b][i] : i \in {k \in DOMAIN CycleBatches[b] : ~BreaksRule(CycleBatches[b][k])}}

\* The record a cycle ingests is the raw record r, validated.
FromRaw(item, r) ==
    /\ item.title = CleanTitle(r.title)
    /\ item.cinema = r.cinema /\ item.location = r.location /\ item.island = r.island
    /\ Len(item.showtimes) = Len(r.showtimes)
    /\ \A j \in DOMAIN r.showtimes :
          /\ Has(r.showtimes[j], "date") /\ item.showtimes[j].date = r.showtimes[j].date
          /\ item.showtimes[j].time = r.showtimes[j].time

C16_ReadModel ==
    [][(qout = NoRequest /\ qout' # NoRequest) =>
          \A k \in DOMAIN qout'.rows :
             \E x \in showtimes :
                /\ x.id = qout'.rows[k].id
                /\ x.active
                /\ (qout'.showtime_date = {} /\ qout'.from_date = {}) => x.date >= clock.today
                /\ Truthy(qout'.island) =>
                      \E c \in cinemas : c.id = x.cinema_id /\ c.island = qout'.island]_vars

\* A request with an island and no date has been answered with rows, while
\* the catalog holds an inactive row, an active row dated before today and
\* a cinema on another island.
C16_Witness ==
    /\ qout # NoRequest
    /\ Truthy(qout.island)
    /\ qout.showtime_date = {} /\ qout.from_date = {}
    /\ qout.rows # <<>>
    /\ \E x \in showtimes : ~x.active
    /\ \E x \in showtimes : x.active /\ x.date < clock.today
    /\ \E c \in cinemas : c.island # qout.island

\* C17: when storage refuses a row of a batch for its key, at the flush of
\* get_or_create_movie or get_or_create_cinema or at the commit of the batch,
\* the session is rolled back and the batch is replayed with individual
\* commits.
C17_ConflictStartsReplay ==
    [][\A p \in ProcIds :
          (/\ proc[p].pc \in {"movieF", "cinemaF", "commit"}
           /\ Outcome(p) = "integrity"
           /\ proc'[p] # proc[p]
           /\ proc'[p].pc # "killed")
            => proc'[p].path = "recovery" /\ ~proc'[p].failed]_vars

\* C18: when the cycles of two processes have both run to their end, however
\* they overlapped, every title of their batches has exactly one Movie row,
\* every cinema exactly one Cinema row, and every readable showtime of both
\* batches is stored, under those rows: the cycle that lost the race for a
\* new Movie or Cinema has stored its showtimes too.
C18_FirstSightingRace ==
    \A p, q \in ProcIds :
       (p # q /\ proc[p].pc = "done" /\ proc[q].pc = "done")
         => LET items == ValidatedBatches[proc[p].batch].valid_movies IN
            /\ \A i \in DOMAIN items :
                  /\ Cardinality({m \in movies : m.title = items[i].title}) = 1
                  /\ Cardinality({c \in cinemas :
                                    CinemaKey(c) = <<items[i].cinema, items[i].location>>}) = 1
            /\ \A k \in BatchKeys(proc[p].batch) : Cardinality(RowsOfKey(k)) = 1

\* C19: a cycle that no other cycle runs beside holds at most one pending
\* write for a (movie, cinema, date, time), however often its batch names the
\* slot, and its commit is never refused: it does not take the replay.
C19_InBatchDedup ==
    \A p \in ProcIds :
       Alone(p) =>
          /\ \A a, b \in DOMAIN proc[p].pend :
                ShowtimeKey(proc[p].pend[a]) = ShowtimeKey(proc[p].pend[b]) => a = b
          /\ proc[p].path # "recovery"

\* C20: when a cycle has run alone to its end on the normal path, every
\* showtime entry of every record the validator accepted is one the upsert
\* engine could read, and a Showtime row of the record's movie and cinema
\* and the entry's date and time exists.
C20_EveryEntryUpserted ==
    \A p \in ProcIds :
       (RanAlone(p) /\ proc[p].path = "normal") =>
          LET items == ValidatedBatches[proc[p].batch].valid_movies IN
          \A i \in DOMAIN items :
             \A j \in DOMAIN items[i].showtimes :
                LET parsed == ParseShowtimeItem(items[i].showtimes[j], clock.today) IN
                /\ parsed.res = "ok"
                /\ RowsOfKey(<<items[i].title, <<items[i].cinema, items[i].location>>,
                               parsed.date, parsed.time>>) # {}

\* The session of a process holds no write that is not committed.
NothingOpen(s) ==
    /\ s.txM = {} /\ s.txC = {} /\ s.txS = {} /\ s.txLink = {}
    /\ s.pend = <<>> /\ s.hb = {}

\* C21: the write set of every record is a transaction of its own: when
\* process_scraped_data turns to the second or a later record of its batch,
\* the writes of the records before it are committed and its session holds
\* none of them, so that no transaction spans the records of the cycle.
C21_TransactionPerRecord ==
    \A p \in ProcIds :
       (proc[p].pc = "movieQ" /\ proc[p].i >= 2 /\ ~proc[p].failed)
         => NothingOpen(proc[p])

C23_LedgerAppendOnly ==
    [][/\ runs \subseteq runs'
       /\ runs' # runs =>
             /\ Cardinality(runs' \ runs) = 1
             /\ \A r \in runs' \ runs : r.id \notin Ids(runs)
             /\ \E p \in ProcIds :
                   /\ proc[p].pc \in {"log", "logfail"}
                   /\ proc'[p].pc \in {"done", "exit1"}]_vars

\* Two cycles have ended, one logged as a success and one as failed: the
\* ledger holds the records of both.
C23_Witness ==
    /\ Cardinality(runs) = 2
    /\ \E r \in runs : r.status = "success"
    /\ \E r \in runs : r.status = "failed"
    /\ \A p \in ProcIds : Ended(proc[p])

\* C24: while a cycle is in progress the ledger holds its RunRecord, with
\* the time the cycle started and no completion time, and GET /scraper/status
\* reports "running".
C24_RecordCreatedAtStart ==
    \A p \in ProcIds :
       ~Ended(proc[p]) =>
          /\ \E r \in runs :
                /\ r.cycle = <<p, proc[p].n>>
                /\ r.started_at = proc[p].started
                /\ r.completed_at < 0
          /\ scraper_status = {"running"}

TaskReturnedWell ==
    task.pc = "returned" =>
       /\ task.status \in {"success", "error", "timeout"}
       /\ ~task.raised
       /\ task.status = "timeout" =>
             /\ \E p \in ProcIds : Exited(proc[p])
             /\ \A p \in ProcIds : Ended(proc[p])
       /\ task.status = "success" => \E p \in ProcIds : proc[p].pc = "done"

\* C26: run_scraper_task, once queued, returns, with status success, error
\* or timeout; when it returns timeout the subprocess is not running any
\* more; and nothing the subprocess or the kill raises leaves the task.
C26_TaskTerminates ==
    /\ []TaskReturnedWell
    /\ (task.pc = "spawn") ~> (task.pc = "returned")

\* The task has returned timeout after it killed a subprocess that had
\* committed a row of its batch.
C26_Witness ==
    /\ task.pc = "returned"
    /\ task.status = "timeout"
    /\ \E p \in ProcIds : proc[p].pc = "killed" /\ proc[p].n > 0
    /\ \E x \in showtimes : x.scraped_at > 0

\* C27: when scrape_all has returned, the collectors it has run are
\* CineCiutat alone if the command line was --cineciutat, Aficine alone if
\* it was --aficine, and all four if it had neither flag.
C27_CollectorSelection ==
    cli.pc = AllScraped =>
       /\ (cli.cineciutat /\ ~cli.aficine) => cli.ran = {"cineciutat"}
       /\ (cli.aficine /\ ~cli.cineciutat) => cli.ran = {"aficine"}
       /\ (~cli.cineciutat /\ ~cli.aficine)
             => cli.ran = {Collectors[k] : k \in DOMAIN Collectors}

\* What process_scraped_data counts for a batch on its normal path (lines
\* 148-156 and 183-185): the movies and the cinemas of its records, and one
\* showtime for every entry it can read, new or re-confirmed.
BatchCounts(b) ==
    LET items == ValidatedBatches[b].valid_movies IN
    [movies_processed  |-> Cardinality({items[i].title : i \in DOMAIN items}),
     cinemas_processed |-> Cardinality({<<items[i].cinema, items[i].location>>
                                        : i \in DOMAIN items}),
     showtimes_added   |-> Cardinality(
         UNION {{<<i, j>> : j \in {k \in DOMAIN items[i].showtimes :
                                     ParseShowtimeItem(items[i].showtimes[k],
                                                       clock.today).res = "ok"}}
                : i \in DOMAIN items})]

\* C28: a cycle that ran to its end reports the same counts for its batch
\* whether its commit went through or it took the replay: the movies and
\* cinemas of the batch, and every readable showtime entry, re-confirmed
\* ones included.
C28_CountsAgree ==
    \A p \in ProcIds :
       (proc[p].pc = "done" /\ proc[p].path \in {"normal", "recovery"})
         => /\ proc[p].stats.movies_processed = BatchCounts(proc[p].batch).movies_processed
            /\ proc[p].stats.cinemas_processed = BatchCounts(proc[p].batch).cinemas_processed
            /\ proc[p].stats.showtimes_added = BatchCounts(proc[p].batch).showtimes_added

\* The same for the cycles whose commit went through.
CountsOfNormalPath ==
    \A p \in ProcIds :
       (proc[p].pc = "done" /\ proc[p].path = "normal")
         => /\ proc[p].stats.movies_processed = BatchCounts(proc[p].batch).movies_processed
            /\ proc[p].stats.cinemas_processed = BatchCounts(proc[p].batch).cinemas_processed
            /\ proc[p].stats.showtimes_added = BatchCounts(proc[p].batch).showtimes_added

\* C29: when process_scraped_data has returned, after the commit of the
\* batch, after the replay or after a commit that failed, its session has no
\* failed transaction and holds no write that is not committed: the next
\* statement on the session does not raise for what the call left behind.
C29_SessionCleanOnReturn ==
    \A p \in ProcIds :
       proc[p].pc = "log" =>
          /\ proc[p].path \in {"normal", "recovery", "commit_failed"}
          /\ ~proc[p].failed
          /\ NothingOpen(proc[p])

\* process_scraped_data has returned after a commit that failed on a session
\* whose flush storage had refused, while another call has returned from the
\* replay or from its commit.
C29_Witness ==
    \E p, q \in ProcIds :
       /\ proc[p].pc = "log" /\ proc[p].path = "commit_failed" /\ proc[p].stats.errors > 1
       /\ proc[q].path \in {"normal", "recovery"}

\* C30: every step leaves the movie, the cinema, the date, the time and the
\* version tag of every Showtime row as they are, so that a heartbeat changes
\* nothing but scraped_at and the active flag, whatever version tag the
\* re-ingested record carries; and every step leaves every Cinema row as it
\* is, its island included, whatever island the records name.
C30_HeartbeatFrame ==
    [][/\ \A x \in showtimes : \A y \in showtimes' :
             y.id = x.id =>
                /\ ShowtimeKey(y) = ShowtimeKey(x)
                /\ y.version = x.version
       /\ \A c \in cinemas : c \in cinemas']_vars

\* A cycle has run alone to its end on a batch with a record that names a
\* stored Cinema with another island and a stored Showtime with another
\* version tag, and the Showtime has been re-confirmed.
C30_Witness ==
    \E p \in ProcIds :
       /\ RanAlone(p)
       /\ \E i \in DOMAIN ValidatedBatches[proc[p].batch].valid_movies :
             LET item == ValidatedBatches[proc[p].batch].valid_movies[i] IN
             /\ \E c \in cinemas :
                   /\ CinemaKey(c) = <<item.cinema, item.location>>
                   /\ c.island # item.island
             /\ \E j \in DOMAIN item.showtimes :
                   LET parsed == ParseShowtimeItem(item.showtimes[j], clock.today) IN
                   /\ parsed.res = "ok"
                   /\ \E x \in RowsOfKey(<<item.title, <<item.cinema, item.location>>,
                                             parsed.date, parsed.time>>) :
                         /\ x.version # item.version
                         /\ x.scraped_at > 0
                         /\ \E a \in BOOLEAN :
                               <<NaturalKey(x), x.version, a>> \in proc[p].cat0.showtimes

=============================================================================
